---- MODULE Spec2Model ----
(***************************************************************************)
(* Model of src/2D_funnel_potential.ipynb: the TwoDFunnel force class      *)
(* (potential, plot) and the notebook cells that draw starting positions,  *)
(* build the OpenMM system, and run the sampling loop.                     *)
(*                                                                         *)
(* Lengths are integers in nanometres.  A value of np.random.rand is a     *)
(* number of twentieths (u stands for u/20), so that rand*20 - 10 is the   *)
(* integer u - 10.  The OpenMM engine and matplotlib are external: the     *)
(* engine is a step counter plus positions that each step call moves by a  *)
(* nondeterministic kick or fails; the figure is a list of layers per axes.*)
(***************************************************************************)
EXTENDS Integers, Sequences, FiniteSets, TLC

VARIABLES
    pc,                     \* the statement the notebook executes next
    error,                  \* the exception that ended the run, or NoError
    nParticles, mass, timestep,          \* lines 121-125
    r, startingPositions, prev_startingPositions, mask,   \* lines 129-140
    forces,                 \* every TwoDFunnel object: its particle indices
    twodfunnelforce,        \* the object the name is bound to (0: unbound)
    system,                 \* [masses, forces] of mm.System, or NoObject
    topology,               \* atoms of the Topology, or NoObject
    integrator,             \* [timestep] or NoObject
    context,                \* [positions, velocities, steps] or NoObject
    objects,                \* engine objects constructed so far, in order
    ind,                    \* loop variable of the setup loop (line 156)
    i,                      \* loop variable of the sampling loop (line 218)
    x,                      \* positions read at line 219
    snapshots,              \* history: one record per read-back at line 219
    stepCalls,              \* history: number of integrator.step calls made
    gca, axesLayers, colorbars, shown,   \* matplotlib state
    plotCall                \* arguments of the TwoDFunnel.plot call made

vars == <<pc, error, nParticles, mass, timestep, r, startingPositions,
          prev_startingPositions, mask, forces, twodfunnelforce, system,
          topology, integrator, context, objects, ind, i, x, snapshots,
          stepCalls, gca, axesLayers, colorbars, shown, plotCall>>

-----------------------------------------------------------------------------
(* Bounds and program constants *)

\* range(1000) at line 218, scaled down
numberOfSamples == 4
\* grid_res = 1000 at line 78, scaled down
grid_res == 3
\* integrator.step(250), line 221
stepsPerSample == 250
\* r = np.array([10] * nParticles), line 129
radius == 10
\* 750 * kelvin, line 123
temperature == 750
\* 100 / picosecond, line 124
friction == 100

\* values of nParticles, mass (amu) and timestep (fs) a user may set at
\* lines 121-125: the notebook's values with fewer particles, and each
\* kind of invalid value
Configs ==
    { [nParticles |-> 2, mass |-> 1000, timestep |-> 10],
      [nParticles |-> 1, mass |-> 1000, timestep |-> 10],
      [nParticles |-> 0, mass |-> 1000, timestep |-> 10],
      [nParticles |-> -1, mass |-> 1000, timestep |-> 10],
      [nParticles |-> 1, mass |-> 0, timestep |-> 10],
      [nParticles |-> 1, mass |-> 1000, timestep |-> 0] }
\* values np.random.rand may return, in twentieths: 0 gives the box edge
\* -10, and (4, 18), (18, 4) give the points (-6, 8), (8, -6) of the circle
RandSet == {0, 4, 18}
\* values drawn for the third column, which line 130 multiplies by 0
RandSetZ == {0, 18}
\* displacements (x, y) one integrator.step call may produce
Kicks == {<<0, 0>>, <<1, -1>>}
\* fatal failures the engine may report
EngineErrors == {"OpenMMException"}
\* axes objects of the figure
Axes == {"ax1", "ax2"}

NoError == "none"
NoObject == <<>>
NoAx == "None"
Plt == "plt"

-----------------------------------------------------------------------------
(* numpy helpers *)

Abs(a) == IF a < 0 THEN -a ELSE a

Idx(n) == 0 .. (n - 1)

BoolInt(b) == IF b THEN 1 ELSE 0

\* np.isclose(a, b): |a - b| <= atol + rtol*|b|, atol = 1e-8, rtol = 1e-5.
\* For integers a, b the bound may be rounded down.
IsClose(a, b) == Abs(a - b) <= (1 + 1000 * Abs(b)) \div 100000000

\* np.sum(p**2) of one row
SumSq(p) == p[1] * p[1] + p[2] * p[2] + p[3] * p[3]

\* np.random.rand(n, 3): every array of values of RandSet
RandArrays(n) == [Idx(n) -> RandSet \X RandSet \X RandSetZ]

\* the third column scaled like the first two
Proposal_ZScaled(u) ==
    LET scale == <<20, 20, 20>>
        offset == <<-10, -10, 0>>
    IN [p \in DOMAIN u |-> [c \in 1..3 |-> (u[p][c] * scale[c]) \div 20 + offset[c]]]

\* (rand * np.array([20, 20, 0])) + np.array([-10, -10, 0]), u in twentieths
Proposal(u) ==
    LET scale == <<20, 20, 0>>
        offset == <<-10, -10, 0>>
    IN [p \in DOMAIN u |-> [c \in 1..3 |-> (u[p][c] * scale[c]) \div 20 + offset[c]]]

\* np.isclose(np.sum(startingPositions**2, axis=1), r**2), line 132
ComputeMask(pos, rr) ==
    [p \in DOMAIN pos |-> IsClose(SumSq(pos[p]), rr[p] * rr[p])]

\* np.any in place of np.all
AllMask_Any(m) == \E p \in DOMAIN m : m[p]

\* np.all(mask), line 133
AllMask(m) == \A p \in DOMAIN m : m[p]

\* the mask applied the wrong way round
MaskedOverwrite_Swapped(new, prev, m) ==
    [p \in DOMAIN prev |->
        [c \in 1..3 |-> new[p][c] * BoolInt(m[p]) + prev[p][c] * BoolInt(~m[p])]]

\* startingPositions * ~mask + prev_startingPositions * mask, line 140
MaskedOverwrite(new, prev, m) ==
    [p \in DOMAIN prev |->
        [c \in 1..3 |-> new[p][c] * BoolInt(~m[p]) + prev[p][c] * BoolInt(m[p])]]

-----------------------------------------------------------------------------
(* Cell 6152f511: class TwoDFunnel *)

(* Real numbers are exact fractions <<n, d>> in lowest terms with d > 0.    *)
(* cos, sqrt, exp and the cube are not computed: a term of the potential   *)
(* is [coef, fn, arg], the coefficient times the function fn of arg.       *)

RECURSIVE Gcd(_, _)
Gcd(a, b) == IF b = 0 THEN a ELSE Gcd(b, a % b)

Frac(n, d) ==
    LET g == Gcd(Abs(n), Abs(d))
        sgn == IF d < 0 THEN -1 ELSE 1
    IN <<sgn * (n \div g), sgn * (d \div g)>>

FInt(n) == <<n, 1>>
FAdd(a, b) == Frac(a[1] * b[2] + b[1] * a[2], a[2] * b[2])
FMul(a, b) == Frac(a[1] * b[1], a[2] * b[2])
FDiv(a, b) == Frac(a[1] * b[2], a[2] * b[1])
FNeg(a) == <<-a[1], a[2]>>
FSq(a) == FMul(a, a)
FLess(a, b) == a[1] * b[2] < b[1] * a[2]
FMax(a, b) == IF FLess(a, b) THEN b ELSE a
\* the least integer >= a
FCeil(a) == -((-a[1]) \div a[2])

\* line 66: the expression handed to CustomExternalForce, at (x, y, z):
\* 2*cos(2*sqrt(x^2+y^2)) - 8*exp(-(x^2+y^2)) + 0.2*((x/8)^2+(y/8)^2)^3
\* + 1000.0 * z^2
expression(px, py, pz) ==
    << [coef |-> FInt(2), fn |-> "cos(2*sqrt)", arg |-> FAdd(FSq(px), FSq(py))],
       [coef |-> FInt(-8), fn |-> "exp", arg |-> FNeg(FAdd(FSq(px), FSq(py)))],
       [coef |-> Frac(2, 10), fn |-> "cube",
        arg |-> FAdd(FSq(FDiv(px, FInt(8))), FSq(FDiv(py, FInt(8))))],
       [coef |-> FInt(1000), fn |-> "id", arg |-> FSq(pz)] >>

\* the third coefficient mistyped
potential_WrongCoefficient(px, py) ==
    << [coef |-> FInt(2), fn |-> "cos(2*sqrt)", arg |-> FAdd(FSq(px), FSq(py))],
       [coef |-> FInt(-8), fn |-> "exp", arg |-> FNeg(FAdd(FSq(px), FSq(py)))],
       [coef |-> Frac(2, 100), fn |-> "cube",
        arg |-> FAdd(FSq(FDiv(px, FInt(8))), FSq(FDiv(py, FInt(8))))] >>

\* lines 70-73: TwoDFunnel.potential(x, y)
\* 2*np.cos(2*np.sqrt(x**2+y**2)) - 8*np.exp(-(x**2+y**2))
\* + 0.2*((x/8)**2+(y/8)**2)**3
potential(px, py) ==
    << [coef |-> FInt(2), fn |-> "cos(2*sqrt)", arg |-> FAdd(FSq(px), FSq(py))],
       [coef |-> FInt(-8), fn |-> "exp", arg |-> FNeg(FAdd(FSq(px), FSq(py)))],
       [coef |-> Frac(2, 10), fn |-> "cube",
        arg |-> FAdd(FSq(FDiv(px, FInt(8))), FSq(FDiv(py, FInt(8))))] >>

\* The names of plot's parameters (line 76); a keyword argument with one of
\* these names is bound to the parameter and never reaches **kwargs.
PlotParams == {"ax", "minx", "maxx", "miny", "maxy"}

Keyword(kw, name, default) == IF name \in DOMAIN kw THEN kw[name] ELSE default

\* Python's binding of the keywords kw of a call plot(**kw), line 76
BindPlot(kw) ==
    [ax |-> Keyword(kw, "ax", NoAx),
     minx |-> Keyword(kw, "minx", -11),
     maxx |-> Keyword(kw, "maxx", 11),
     miny |-> Keyword(kw, "miny", -11),
     maxy |-> Keyword(kw, "maxy", 11),
     kwargs |-> [k \in (DOMAIN kw) \ PlotParams |-> kw[k]]]

\* line 79
GridWidth(a) ==
    FDiv(FMax(FInt(a.maxx - a.minx), FInt(a.maxy - a.miny)), FInt(grid_res))

\* np.mgrid[lo : hi : width] along one axis: lo + k*width for k = 0, 1, ...
\* while below hi (line 81)
GridCount(lo, hi, width) == FCeil(FDiv(FInt(hi - lo), width))
GridPoint(lo, width, k) == FAdd(FInt(lo), FMul(FInt(k), width))

\* lines 81-82: V = cls.potential(xx, yy), indexed by the grid indices
GridV(a) ==
    LET w == GridWidth(a)
    IN [g \in Idx(GridCount(a.minx, a.maxx, w)) \X Idx(GridCount(a.miny, a.maxy, w))
           |-> potential(GridPoint(a.minx, w, g[1]), GridPoint(a.miny, w, g[2]))]

\* lines 80, 85-87: the object contourf is called on
PlotTarget(a) ==
    LET ax == Keyword(a.kwargs, "ax", NoAx)
    IN IF ax = NoAx THEN Plt ELSE ax

\* plt.f(...) draws on the current axes; ax.f(...) draws on ax
DrawnOn(target, current) == IF target = Plt THEN current ELSE target

\* lines 76-89: TwoDFunnel.plot(**kw)
DoPlot(kw) ==
    LET a == BindPlot(kw)
        kwargs == [k \in (DOMAIN a.kwargs) \ {"ax"} |-> a.kwargs[k]]
        layer == [kind |-> "contourf",
                  data |-> [V |-> GridV(a), levels |-> 8, kwargs |-> kwargs]]
        on == DrawnOn(PlotTarget(a), gca)
    IN /\ plotCall' = kw
       /\ axesLayers' = [axesLayers EXCEPT ![on] = Append(@, layer)]
       /\ colorbars' = colorbars + 1

-----------------------------------------------------------------------------
(* Cell 44ce4730: parameters and starting positions *)

Init ==
    /\ pc = "draw"
    /\ error = NoError
    /\ \E cfg \in Configs :
          /\ nParticles = cfg.nParticles
          /\ mass = cfg.mass
          /\ timestep = cfg.timestep
    /\ r = <<>>
    /\ startingPositions = <<>>
    /\ prev_startingPositions = <<>>
    /\ mask = <<>>
    /\ forces = <<>>
    /\ twodfunnelforce = 0
    /\ system = NoObject
    /\ topology = NoObject
    /\ integrator = NoObject
    /\ context = NoObject
    /\ objects = <<>>
    /\ ind = 0
    /\ i = 0
    /\ x = NoObject
    /\ snapshots = <<>>
    /\ stepCalls = 0
    /\ gca = "ax1"
    /\ axesLayers = [a \in Axes |-> <<>>]
    /\ colorbars = 0
    /\ shown = FALSE
    /\ plotCall = NoObject

\* lines 129-130; np.random.rand raises ValueError on a negative dimension
Draw ==
    /\ pc = "draw"
    /\ IF nParticles < 0
       THEN /\ pc' = "raised"
            /\ error' = "ValueError"
            /\ UNCHANGED <<r, startingPositions>>
       ELSE /\ r' = [p \in Idx(nParticles) |-> radius]
            /\ \E u \in RandArrays(nParticles) : startingPositions' = Proposal(u)
            /\ pc' = "while"
            /\ UNCHANGED error
    /\ UNCHANGED <<nParticles, mass, timestep, prev_startingPositions, mask,
                   forces, twodfunnelforce, system, topology, integrator,
                   context, objects, ind, i, x, snapshots, stepCalls, gca,
                   axesLayers, colorbars, shown, plotCall>>

\* lines 131-134
WhileCheck ==
    /\ pc = "while"
    /\ mask' = ComputeMask(startingPositions, r)
    /\ pc' = IF AllMask(mask') THEN "setup" ELSE "redraw"
    /\ UNCHANGED <<error, nParticles, mass, timestep, r, startingPositions,
                   prev_startingPositions, forces, twodfunnelforce, system,
                   topology, integrator, context, objects, ind, i, x,
                   snapshots, stepCalls, gca, axesLayers, colorbars, shown,
                   plotCall>>

\* lines 136-140 (mask.reshape only changes the shape)
Redraw ==
    /\ pc = "redraw"
    /\ prev_startingPositions' = startingPositions
    /\ \E u \in RandArrays(nParticles) :
          startingPositions' = MaskedOverwrite(Proposal(u), startingPositions, mask)
    /\ pc' = "while"
    /\ UNCHANGED <<error, nParticles, mass, timestep, r, mask, forces,
                   twodfunnelforce, system, topology, integrator, context,
                   objects, ind, i, x, snapshots, stepCalls, gca, axesLayers,
                   colorbars, shown, plotCall>>

-----------------------------------------------------------------------------
(* Cell 44ce4730, lines 143-163: force, system and topology *)

\* TwoDFunnel(), lines 64-67: a CustomExternalForce with no particles yet
NewForce == [expression |-> "funnel + 1000.0 * z^2", particles |-> <<>>]

\* lines 144-154: TwoDFunnel(), System(), Topology() with one chain and one
\* residue, and TwoDFunnel() again, which rebinds twodfunnelforce
Setup ==
    /\ pc = "setup"
    /\ forces' = forces \o <<NewForce, NewForce>>
    /\ twodfunnelforce' = Len(forces) + 2
    /\ system' = [masses |-> <<>>, forces |-> <<>>]
    /\ topology' = [atoms |-> <<>>]
    /\ objects' = objects \o <<"force", "System", "Topology", "force">>
    /\ ind' = 0
    /\ pc' = "addParticle"
    /\ UNCHANGED <<error, nParticles, mass, timestep, r, startingPositions,
                   prev_startingPositions, mask, integrator, context, i, x,
                   snapshots, stepCalls, gca, axesLayers, colorbars, shown,
                   plotCall>>

\* lines 156-162: one iteration of the setup loop; system.addParticle
\* returns the index of the particle it adds.  ind counts the iterations.
AddParticle ==
    /\ pc = "addParticle"
    /\ IF ind < nParticles
       THEN LET index == Len(system.masses)
            IN /\ system' = [system EXCEPT !.masses = Append(@, mass)]
               /\ forces' = [forces EXCEPT ![twodfunnelforce].particles =
                                              Append(@, index)]
               /\ topology' = [topology EXCEPT !.atoms =
                                  Append(@, [name |-> ind, index |-> index])]
               /\ ind' = ind + 1
               /\ pc' = "addParticle"
       ELSE /\ pc' = "addForce"
            /\ UNCHANGED <<system, forces, topology, ind>>
    /\ UNCHANGED <<error, nParticles, mass, timestep, r, startingPositions,
                   prev_startingPositions, mask, twodfunnelforce, integrator,
                   context, objects, i, x, snapshots, stepCalls, gca,
                   axesLayers, colorbars, shown, plotCall>>

\* the first TwoDFunnel, which holds no particle, added to the System
AddForce_FirstForce ==
    /\ pc = "addForce"
    /\ system' = [system EXCEPT !.forces = Append(@, twodfunnelforce - 1)]
    /\ pc' = "integrator"
    /\ UNCHANGED <<error, nParticles, mass, timestep, r, startingPositions,
                   prev_startingPositions, mask, forces, twodfunnelforce,
                   topology, integrator, context, objects, ind, i, x,
                   snapshots, stepCalls, gca, axesLayers, colorbars, shown,
                   plotCall>>

\* line 163
AddForce ==
    /\ pc = "addForce"
    /\ system' = [system EXCEPT !.forces = Append(@, twodfunnelforce)]
    /\ pc' = "integrator"
    /\ UNCHANGED <<error, nParticles, mass, timestep, r, startingPositions,
                   prev_startingPositions, mask, forces, twodfunnelforce,
                   topology, integrator, context, objects, ind, i, x,
                   snapshots, stepCalls, gca, axesLayers, colorbars, shown,
                   plotCall>>

-----------------------------------------------------------------------------
(* Cell 4f0cfd31, lines 181-185: integrator, Simulation, initial state *)

\* line 181
MakeIntegrator ==
    /\ pc = "integrator"
    /\ integrator' = [temperature |-> temperature, friction |-> friction,
                      timestep |-> timestep]
    /\ objects' = Append(objects, "integrator")
    /\ pc' = "simulation"
    /\ UNCHANGED <<error, nParticles, mass, timestep, r, startingPositions,
                   prev_startingPositions, mask, forces, twodfunnelforce,
                   system, topology, context, ind, i, x, snapshots, stepCalls,
                   gca, axesLayers, colorbars, shown, plotCall>>

\* line 182: Simulation creates the Context.  Whether the engine accepts a
\* System without particles is not decided by the notebook: both outcomes.
MakeSimulation ==
    /\ pc = "simulation"
    /\ \/ /\ context' = [positions |-> <<>>, velocities |-> FALSE, steps |-> 0]
          /\ objects' = Append(objects, "Simulation")
          /\ pc' = "setPositions"
          /\ UNCHANGED error
       \/ /\ Len(system.masses) = 0
          /\ \E e \in EngineErrors : error' = e
          /\ pc' = "raised"
          /\ UNCHANGED <<context, objects>>
    /\ UNCHANGED <<nParticles, mass, timestep, r, startingPositions,
                   prev_startingPositions, mask, forces, twodfunnelforce,
                   system, topology, integrator, ind, i, x, snapshots,
                   stepCalls, gca, axesLayers, colorbars, shown, plotCall>>

\* line 183
SetPositions ==
    /\ pc = "setPositions"
    /\ context' = [context EXCEPT !.positions = startingPositions]
    /\ pc' = "setVelocities"
    /\ UNCHANGED <<error, nParticles, mass, timestep, r, startingPositions,
                   prev_startingPositions, mask, forces, twodfunnelforce,
                   system, topology, integrator, objects, ind, i, x,
                   snapshots, stepCalls, gca, axesLayers, colorbars, shown,
                   plotCall>>

\* lines 184-185
SetVelocities ==
    /\ pc = "setVelocities"
    /\ context' = [context EXCEPT !.velocities = TRUE]
    /\ pc' = "plot"
    /\ UNCHANGED <<error, nParticles, mass, timestep, r, startingPositions,
                   prev_startingPositions, mask, forces, twodfunnelforce,
                   system, topology, integrator, objects, ind, i, x,
                   snapshots, stepCalls, gca, axesLayers, colorbars, shown,
                   plotCall>>

-----------------------------------------------------------------------------
(* Cell 2dd5fd6f, lines 216-222: contour plot and sampling loop *)

\* one iteration too many
MoreSamples_OffByOne(k) == k <= numberOfSamples

\* line 218: range(numberOfSamples) has a k-th element
MoreSamples(k) == k < numberOfSamples

\* the integrator stepped before the read-back
LoopBody_StepFirst == <<"step", "getState", "scatter">>

\* lines 219-221: the statements of the loop body, in order
LoopBody == <<"getState", "scatter", "step">>

\* the statement after statement s of the loop body; "for" after the last
BodyNext(s) ==
    LET k == CHOOSE j \in 1..Len(LoopBody) : LoopBody[j] = s
    IN IF k = Len(LoopBody) THEN "for" ELSE LoopBody[k + 1]

\* the number of iterations begun once statement s has completed
BodyCount(s, k) == IF BodyNext(s) = "for" THEN k + 1 ELSE k

\* the exception caught and the loop resumed
StepFailure_Swallowed(e) ==
    /\ error' = e
    /\ pc' = "for"
    /\ UNCHANGED i

\* lines 218-221 have no try/except: an exception raised by
\* integrator.step leaves the loop and ends the cell
StepFailure(e) ==
    /\ error' = e
    /\ pc' = "raised"
    /\ UNCHANGED i

\* line 216: TwoDFunnel.plot(ax=plt.gca())
Plot ==
    /\ pc = "plot"
    /\ DoPlot([ax |-> gca])
    /\ i' = 0
    /\ pc' = "for"
    /\ UNCHANGED <<error, nParticles, mass, timestep, r, startingPositions,
                   prev_startingPositions, mask, forces, twodfunnelforce,
                   system, topology, integrator, context, objects, ind, x,
                   snapshots, stepCalls, gca, shown>>

\* line 218: for i in range(numberOfSamples); i counts the iterations begun
For ==
    /\ pc = "for"
    /\ pc' = IF MoreSamples(i) THEN LoopBody[1] ELSE "show"
    /\ UNCHANGED <<error, nParticles, mass, timestep, r, startingPositions,
                   prev_startingPositions, mask, forces, twodfunnelforce,
                   system, topology, integrator, context, objects, ind, i, x,
                   snapshots, stepCalls, gca, axesLayers, colorbars, shown,
                   plotCall>>

\* line 219: the (N, 3) positions of the context, with the number of
\* integrator steps the context has had
GetState ==
    /\ pc = "getState"
    /\ x' = [positions |-> context.positions, steps |-> context.steps]
    /\ pc' = BodyNext("getState")
    /\ i' = BodyCount("getState", i)
    /\ UNCHANGED <<error, nParticles, mass, timestep, r, startingPositions,
                   prev_startingPositions, mask, forces, twodfunnelforce,
                   system, topology, integrator, context, objects, ind,
                   snapshots, stepCalls, gca, axesLayers, colorbars, shown,
                   plotCall>>

\* x[:,0], x[:,1]
Project(pos) == [p \in DOMAIN pos |-> <<pos[p][1], pos[p][2]>>]

\* the figure cleared before the points are drawn
scatter_Replace(layers, xy) == <<[kind |-> "scatter", data |-> xy]>>

\* line 220: plt.scatter(x[:, 0], x[:, 1]) adds one collection of points to
\* the artists the current axes already hold
scatter(layers, xy) == Append(layers, [kind |-> "scatter", data |-> xy])

\* line 220: plt.scatter(x[:,0], x[:,1], ...) on the current axes
Scatter ==
    /\ pc = "scatter"
    /\ axesLayers' = [axesLayers EXCEPT ![DrawnOn(Plt, gca)] =
                         scatter(@, Project(x.positions))]
    /\ snapshots' = Append(snapshots, [steps |-> x.steps, xy |-> Project(x.positions)])
    /\ pc' = BodyNext("scatter")
    /\ i' = BodyCount("scatter", i)
    /\ UNCHANGED <<error, nParticles, mass, timestep, r, startingPositions,
                   prev_startingPositions, mask, forces, twodfunnelforce,
                   system, topology, integrator, context, objects, ind, x,
                   stepCalls, gca, colorbars, shown, plotCall>>

\* The engine after n steps that moved every particle by the kick d in the
\* plane; the stiff restraint keeps z where it is.
Stepped(ctx, n, d) ==
    [ctx EXCEPT !.steps = @ + n,
                !.positions = [p \in DOMAIN @ |->
                                  <<@[p][1] + d[1], @[p][2] + d[2], @[p][3]>>]]

\* line 221: integrator.step(250).  The call either completes, or the
\* engine raises after some of the steps; nothing catches the exception.
Step ==
    /\ pc = "step"
    /\ stepCalls' = stepCalls + 1
    /\ \/ /\ \E d \in Kicks : context' = Stepped(context, stepsPerSample, d)
          /\ i' = BodyCount("step", i)
          /\ pc' = BodyNext("step")
          /\ UNCHANGED error
       \/ /\ \E e \in EngineErrors : StepFailure(e)
          /\ \E n \in {0, stepsPerSample - 1} :
                context' = Stepped(context, n, <<0, 0>>)
    /\ UNCHANGED <<nParticles, mass, timestep, r, startingPositions,
                   prev_startingPositions, mask, forces, twodfunnelforce,
                   system, topology, integrator, objects, ind, x, snapshots,
                   gca, axesLayers, colorbars, shown, plotCall>>

\* line 222
Show ==
    /\ pc = "show"
    /\ shown' = TRUE
    /\ pc' = "done"
    /\ UNCHANGED <<error, nParticles, mass, timestep, r, startingPositions,
                   prev_startingPositions, mask, forces, twodfunnelforce,
                   system, topology, integrator, context, objects, ind, i, x,
                   snapshots, stepCalls, gca, axesLayers, colorbars,
                   plotCall>>

Next ==
    \/ Draw
    \/ WhileCheck
    \/ Redraw
    \/ Setup
    \/ AddParticle
    \/ AddForce
    \/ MakeIntegrator
    \/ MakeSimulation
    \/ SetPositions
    \/ SetVelocities
    \/ Plot
    \/ For
    \/ GetState
    \/ Scatter
    \/ Step
    \/ Show

Spec == Init /\ [][Next]_vars

\* The notebook is a sequential program: it keeps executing statements.
FairSpec == Init /\ [][Next]_vars /\ WF_vars(Next)

-----------------------------------------------------------------------------
(* TwoDFunnel.plot as a library call: any keywords, either axes current *)

\* keyword arguments a caller may pass to plot
PlotKeywords ==
    { a @@ bx @@ by @@ c :
        a \in {<<>>} \cup {[ax |-> v] : v \in Axes \cup {NoAx}},
        bx \in {<<>>, [minx |-> -1], [maxx |-> 1], [minx |-> -1, maxx |-> 1]},
        by \in {<<>>, [miny |-> -1], [maxy |-> 1]},
        c \in {<<>>, [cmap |-> "viridis"]} }

InitPlot ==
    /\ pc = "call"
    /\ error = NoError
    /\ nParticles = 0
    /\ mass = 0
    /\ timestep = 0
    /\ r = <<>>
    /\ startingPositions = <<>>
    /\ prev_startingPositions = <<>>
    /\ mask = <<>>
    /\ forces = <<>>
    /\ twodfunnelforce = 0
    /\ system = NoObject
    /\ topology = NoObject
    /\ integrator = NoObject
    /\ context = NoObject
    /\ objects = <<>>
    /\ ind = 0
    /\ i = 0
    /\ x = NoObject
    /\ snapshots = <<>>
    /\ stepCalls = 0
    /\ gca \in Axes
    /\ axesLayers = [a \in Axes |-> <<>>]
    /\ colorbars = 0
    /\ shown = FALSE
    /\ plotCall = NoObject

CallPlot ==
    /\ pc = "call"
    /\ \E kw \in PlotKeywords : DoPlot(kw)
    /\ pc' = "returned"
    /\ UNCHANGED <<error, nParticles, mass, timestep, r, startingPositions,
                   prev_startingPositions, mask, forces, twodfunnelforce,
                   system, topology, integrator, context, objects, ind, i, x,
                   snapshots, stepCalls, gca, shown>>

NextPlot == CallPlot

SpecPlot == InitPlot /\ [][NextPlot]_vars

-----------------------------------------------------------------------------
(* Properties *)

InRetryLoop == pc \in {"draw", "while", "redraw"}

Accepted(pos) == IsClose(SumSq(pos), radius * radius)

\* C1 as stated: the k-th snapshot reflects the engine after exactly
\* k*stepsPerSample integrator steps, so no snapshot is of a state that
\* has had zero steps.
C1_SnapshotAfterSteps ==
    \A k \in 1..Len(snapshots) : snapshots[k].steps = k * stepsPerSample

\* C1 amended: in every iteration the positions are read back and
\* scattered first and integrator.step runs afterwards, so the k-th
\* snapshot reflects the engine after exactly (k-1)*stepsPerSample steps
\* and the first snapshot is of the initial state.
C1_SnapshotBeforeSteps ==
    /\ \A k \in 1..Len(snapshots) : snapshots[k].steps = (k - 1) * stepsPerSample
    /\ pc \in {"getState", "scatter"} => stepCalls = Len(snapshots)
    /\ pc = "step" => stepCalls + 1 = Len(snapshots)

C1_Witness ==
    /\ pc = "done"
    /\ Len(snapshots) >= 2
    /\ snapshots[1].steps = 0
    /\ snapshots[2].steps = stepsPerSample

\* C2: a run that completes has taken exactly numberOfSamples snapshots
\* and made numberOfSamples*stepsPerSample integrator steps, and every
\* snapshot holds the (x, y) pair of each of the N particles: shape (N, 2).
C2_CompletedRunCounts ==
    pc = "done" =>
        /\ Len(snapshots) = numberOfSamples
        /\ context.steps = numberOfSamples * stepsPerSample
        /\ stepCalls = numberOfSamples
        /\ \A k \in 1..Len(snapshots) :
              /\ DOMAIN snapshots[k].xy = Idx(nParticles)
              /\ \A p \in Idx(nParticles) : Len(snapshots[k].xy[p]) = 2

C2_Witness ==
    /\ pc = "done"
    /\ nParticles = 2
    /\ snapshots[numberOfSamples].xy[0] # snapshots[numberOfSamples].xy[1]

\* C3: once the retry loop has been left every particle satisfies the
\* closeness predicate, and setPositions hands the engine exactly the
\* accepted positions.
C3_ExitOnlyWhenAllAccepted ==
    /\ (~InRetryLoop /\ error # "ValueError") =>
          /\ DOMAIN startingPositions = Idx(nParticles)
          /\ \A p \in Idx(nParticles) : Accepted(startingPositions[p])
    /\ pc = "setVelocities" =>
          /\ context.positions = startingPositions
          /\ \A p \in Idx(nParticles) : Accepted(context.positions[p])

C3_Witness ==
    /\ pc = "setVelocities"
    /\ nParticles = 2
    /\ prev_startingPositions # <<>>
    /\ prev_startingPositions # startingPositions
    /\ context.positions[0] # context.positions[1]

\* C4: the retry loop cannot run forever: for every sequence of draws it
\* is left, with all particles accepted or with an error.
C4_RetryLoopEnds == <>(~InRetryLoop)

\* C5: with a non-positive particle count, mass or timestep no engine
\* object is ever constructed.
C5_InvalidConfigurationRejected ==
    (nParticles <= 0 \/ mass <= 0 \/ timestep <= 0) => objects = <<>>

\* C6: a failure reported by integrator.step reaches the caller as the
\* engine raised it and ends the run: afterwards no integrator step is
\* made, no snapshot is read or scattered, and the step is not retried.
C6_StepFailureAbandonsRun ==
    [][ /\ (pc = "step" /\ error' # NoError) =>
              (error' \in EngineErrors /\ snapshots' = snapshots)
        /\ error # NoError =>
              /\ error' = error
              /\ stepCalls' = stepCalls
              /\ context' = context
              /\ x' = x
              /\ snapshots' = snapshots
              /\ axesLayers' = axesLayers ]_vars

C6_Witness ==
    /\ pc = "raised"
    /\ error \in EngineErrors
    /\ stepCalls = 2
    /\ Len(snapshots) = 2
    /\ context.steps = 2 * stepsPerSample - 1

\* C7 as stated: once numberOfSamples snapshots have been taken no
\* integrator step is made and no snapshot is produced.
C7_NoStepAfterLastSnapshot ==
    [][Len(snapshots) = numberOfSamples =>
          (stepCalls' = stepCalls /\ snapshots' = snapshots)]_vars

\* C7 amended: the last snapshot is followed by one more
\* integrator.step(stepsPerSample) call; once numberOfSamples snapshots
\* have been taken and numberOfSamples step calls made, no integrator step
\* is made and no snapshot is produced.
C7_DoneIsTerminal ==
    [][ /\ Len(snapshots') <= numberOfSamples
        /\ stepCalls' <= numberOfSamples
        /\ (Len(snapshots) = numberOfSamples /\ stepCalls < numberOfSamples) =>
              (snapshots' = snapshots /\ stepCalls' = stepCalls + 1)
        /\ (Len(snapshots) = numberOfSamples /\ stepCalls = numberOfSamples) =>
              (stepCalls' = stepCalls /\ snapshots' = snapshots
               /\ context' = context) ]_vars

C7_Witness ==
    /\ pc = "done"
    /\ shown
    /\ Len(snapshots) = numberOfSamples
    /\ stepCalls = numberOfSamples
    /\ context.steps = snapshots[numberOfSamples].steps + stepsPerSample

\* the axes that hold a filled contour
ContourAxes ==
    {a \in Axes : \E k \in 1..Len(axesLayers[a]) : axesLayers[a][k].kind = "contourf"}

\* C8: plot draws the filled contour on the axes passed as ax whenever one
\* is passed, and on the process-wide context (the current axes) only when
\* none is passed.
C8_ContourOnSuppliedAxes ==
    pc = "returned" =>
        ContourAxes = { IF Keyword(plotCall, "ax", NoAx) # NoAx
                        THEN plotCall.ax ELSE gca }

\* the grid values of the contour drawn by the plot call
ContourV ==
    LET a == CHOOSE b \in ContourAxes : TRUE
        k == CHOOSE j \in 1..Len(axesLayers[a]) : axesLayers[a][j].kind = "contourf"
    IN axesLayers[a][k].data.V

\* the (x, y) of grid index g of the plot call made
GridXY(g) ==
    LET a == BindPlot(plotCall)
        w == GridWidth(a)
    IN <<GridPoint(a.minx, w, g[1]), GridPoint(a.miny, w, g[2])>>

Rho2(q) == FAdd(FSq(q[1]), FSq(q[2]))

\* C10: at every point the value of potential is the expression given to
\* the engine without its z term, which vanishes at z = 0; the value
\* depends on x and y only through x^2 + y^2.
C10_PotentialIsInPlaneExpression ==
    pc = "returned" =>
        /\ \A g \in DOMAIN ContourV :
              LET e == expression(GridXY(g)[1], GridXY(g)[2], FInt(0))
              IN /\ ContourV[g] = SubSeq(e, 1, 3)
                 /\ e[4].arg = FInt(0)
        /\ \A g, h \in DOMAIN ContourV :
              Rho2(GridXY(g)) = Rho2(GridXY(h)) => ContourV[g] = ContourV[h]

C10_Witness ==
    /\ pc = "returned"
    /\ \E g, h \in DOMAIN ContourV :
          /\ GridXY(g) # GridXY(h)
          /\ Rho2(GridXY(g)) = Rho2(GridXY(h))
          /\ ContourV[g] = ContourV[h]
    /\ \E g, h \in DOMAIN ContourV : ContourV[g] # ContourV[h]

RetryStepKeepsAccepted ==
    (pc \in {"while", "redraw"}) =>
        /\ DOMAIN startingPositions' = DOMAIN startingPositions
        /\ \A p \in DOMAIN startingPositions :
              Accepted(startingPositions[p]) =>
                  /\ startingPositions'[p] = startingPositions[p]
                  /\ Accepted(startingPositions'[p])
        /\ (pc = "redraw") =>
              (\A p \in DOMAIN startingPositions :
                  /\ mask[p] = Accepted(startingPositions[p])
                  /\ mask[p] => startingPositions'[p] = prev_startingPositions'[p])

\* C11: a retry gives the new proposal only to particles that do not
\* satisfy the closeness predicate; a particle that satisfies it keeps its
\* position, so the set of accepted particles never shrinks.
C11_AcceptedParticlesFrozen == [][RetryStepKeepsAccepted]_vars

C11_Witness ==
    /\ pc = "while"
    /\ nParticles = 2
    /\ prev_startingPositions # <<>>
    /\ \E p, q \in Idx(nParticles) :
          /\ Accepted(prev_startingPositions[p])
          /\ startingPositions[p] = prev_startingPositions[p]
          /\ ~Accepted(prev_startingPositions[q])
          /\ startingPositions[q] # prev_startingPositions[q]

InBox(pos) ==
    /\ pos[3] = 0
    /\ -radius <= pos[1] /\ pos[1] <= radius
    /\ -radius <= pos[2] /\ pos[2] <= radius

\* C12: in every state of the retry loop (the first draw, after every masked
\* overwrite, and at exit) each candidate position has z = 0 and x and y
\* inside [-10, 10] x [-10, 10].
C12_CandidatesInPlaneAndBox ==
    (pc \in {"while", "redraw", "setup"}) =>
        /\ DOMAIN startingPositions = Idx(nParticles)
        /\ \A p \in DOMAIN startingPositions : InBox(startingPositions[p])

C12_Witness ==
    /\ pc = "while"
    /\ nParticles = 2
    /\ prev_startingPositions # <<>>
    /\ \E p, q \in Idx(nParticles) :
          /\ startingPositions[p] # prev_startingPositions[p]
          /\ startingPositions[p][1] = -radius
          /\ startingPositions[q] = prev_startingPositions[q]
          /\ Accepted(startingPositions[q])
    /\ \A p \in Idx(nParticles) : InBox(startingPositions[p])

\* the figure the notebook draws on
Figure == axesLayers[gca]

RenderingOrdered ==
    /\ \A a \in Axes \ {gca} : axesLayers[a] = <<>>
    /\ Len(Figure) \in {Len(snapshots), Len(snapshots) + 1}
    /\ Len(snapshots) > 0 => Len(Figure) = Len(snapshots) + 1
    /\ colorbars = (IF Len(Figure) > 0 THEN 1 ELSE 0)
    /\ \A j \in 1..Len(Figure) :
          Figure[j].kind = (IF j = 1 THEN "contourf" ELSE "scatter")
    /\ (pc \in {"for", "getState", "scatter", "step", "show", "done"}) =>
          Len(Figure) > 0
    /\ \A k \in 1..Len(snapshots) :
          Figure[k + 1] = [kind |-> "scatter", data |-> snapshots[k].xy]
    /\ (pc \in {"show", "done"}) => Len(Figure) = numberOfSamples + 1
    /\ shown => (pc = "done" /\ Len(snapshots) = numberOfSamples)

RenderingStep ==
    /\ Len(axesLayers'[gca]) >= Len(Figure)
    /\ Len(axesLayers'[gca]) <= Len(Figure) + 1
    /\ SubSeq(axesLayers'[gca], 1, Len(Figure)) = Figure
    /\ gca' = gca
    /\ (pc = "scatter") =>
          /\ Len(axesLayers'[gca]) = Len(Figure) + 1
          /\ Len(snapshots') = Len(snapshots) + 1
    /\ (pc \notin {"plot", "scatter"}) => axesLayers' = axesLayers
    /\ shown => shown'
    /\ (shown' /\ ~shown) => pc = "show"

\* C13: the figure is append-only and ordered: the contour is rendered exactly
\* once and before any scatter layer, every sample appends exactly one scatter
\* layer (k samples give k scatter layers, none removed or replaced), and
\* plt.show happens once, only after the last sample.
C13_RenderingAppendOnly == []RenderingOrdered /\ [][RenderingStep]_vars

C13_Witness ==
    /\ pc = "done"
    /\ shown
    /\ nParticles = 2
    /\ Len(snapshots) = numberOfSamples
    /\ Len(Figure) = numberOfSamples + 1
    /\ Figure[1].kind = "contourf"
    /\ \A k \in 1..numberOfSamples : Figure[k + 1].kind = "scatter"
    /\ \E k \in 2..numberOfSamples : Figure[k + 1] # Figure[k]

AfterSetupLoop ==
    \/ pc \in {"addForce", "integrator", "simulation", "setPositions",
                "setVelocities", "plot", "for", "getState", "scatter", "step",
                "show", "done"}
    \/ pc = "raised" /\ system # NoObject

\* particle indices 0..n-1 in the order they were added
Indices(n) == [k \in 1..n |-> k - 1]

\* the force the System holds once line 163 has run, the force about to be
\* added before that
SystemForce ==
    IF pc = "addForce" THEN forces[twodfunnelforce] ELSE forces[system.forces[1]]

\* C14: after the setup loop the System, the TwoDFunnel force added to the
\* System and the Topology each hold exactly N particles with the same
\* indices 0..N-1; exactly one force is added to the System; the particle
\* count stays N through context initialisation and sampling.
C14_ParticlesMatchEverywhere ==
    AfterSetupLoop =>
        /\ Len(system.masses) = nParticles
        /\ Len(system.forces) = (IF pc = "addForce" THEN 0 ELSE 1)
        /\ SystemForce.particles = Indices(nParticles)
        /\ Len(topology.atoms) = nParticles
        /\ \A k \in 1..nParticles :
              /\ topology.atoms[k].index = k - 1
              /\ topology.atoms[k].name = k - 1
        /\ (context # NoObject /\ pc \notin {"setPositions", "raised"}) =>
              DOMAIN context.positions = Idx(nParticles)
        /\ x # NoObject => DOMAIN x.positions = Idx(nParticles)
        /\ \A k \in 1..Len(snapshots) :
              DOMAIN snapshots[k].xy = Idx(nParticles)

C14_Witness ==
    /\ pc = "done"
    /\ nParticles = 2
    /\ Len(snapshots) = numberOfSamples
    /\ Len(system.masses) = 2
    /\ system.forces = <<twodfunnelforce>>
    /\ forces[twodfunnelforce].particles = <<0, 1>>
    /\ \E f \in DOMAIN forces : forces[f].particles = <<>>
    /\ DOMAIN context.positions = Idx(2)

====
